---- MODULE Spec2Model ----
(***************************************************************************)
(* Model of go-mcp-rest.                                                   *)
(*                                                                         *)
(* mcp-rest-server-gen (main, loadOpenAPISpec, generateMCPServer,          *)
(* processOperation) reads an OpenAPI description, extracts one            *)
(* OperationInfo per operationId and writes a Go program that registers    *)
(* one MCP tool per operation.  The generated program (the bridge) is      *)
(* modelled from the statements generateMCPServer emits.                   *)
(***************************************************************************)
EXTENDS Integers, Sequences, FiniteSets, TLC

VARIABLES
    description,   \* the OpenAPI description the run reads (input, fixed)
    args,          \* the command line of mcp-rest-server-gen (input, fixed)
    CLI,           \* the global CLI struct, mutated by main
    fs,            \* the filesystem: directories and files
    fsBefore,      \* the filesystem when the current run started
    pc,            \* position of mcp-rest-server-gen: "main", "generate", "exited"
    exit,          \* "running", "ok", or the message of the fatal error
    operations,    \* generateMCPServer's operations map after extraction
    ranged,        \* the order in which the run ranged over the document's paths
    program,       \* the source text the bridge process was built from
    bpc,           \* position of the bridge's main goroutine
    steps,         \* the startup steps the bridge has completed, in order
    tools,         \* the tools registered with the bridge's server
    serving,       \* TRUE once server.Serve() has returned nil
    failed,        \* the start-up call of the bridge that returned an error, or ""
    response,      \* the result of the last tool invocation: <<>> or <<result>>
    clientCli,     \* mcp-rest-client-gen: the parsed command line (cli)
    cpc,           \* mcp-rest-client-gen: position of main
    cmd,           \* mcp-rest-client-gen: the *exec.Cmd of the direct invocation, or nil
    output,        \* mcp-rest-client-gen: the combined output of the last invocation
    ran,           \* mcp-rest-client-gen: the oapi-codegen invocations that have exited
    written        \* mcp-rest-client-gen: the os.WriteFile calls on the output file

genVars == <<description, args, CLI, fs, fsBefore, pc, exit, operations, ranged>>
bridgeVars == <<program, bpc, steps, tools, serving, failed, response>>
clientVars == <<clientCli, cpc, cmd, output, ran, written>>
vars == <<description, args, CLI, fs, fsBefore, pc, exit, operations, ranged,
          program, bpc, steps, tools, serving, failed, response,
          clientCli, cpc, cmd, output, ran, written>>

(***************************************************************************)
(* Bounds and sample data                                                  *)
(* The initial states cover the inputs in three families: every placement  *)
(* of up to MaxOps operations over the slots of two paths; one operation   *)
(* of every shape in every slot; and every source, output path and         *)
(* filesystem for a few documents.                                         *)
(***************************************************************************)
\* Largest number of operation definitions in a description.
MaxOps == 2

Paths == {"/books", "/books/{id}"}

\* The method slots generateMCPServer reads, in the order it reads them.
Methods == <<"GET", "POST", "PUT", "DELETE", "PATCH", "HEAD", "OPTIONS">>

\* A method slot of a path item that generateMCPServer never reads.
OtherMethods == {"TRACE"}

AllMethods == {Methods[i] : i \in 1..Len(Methods)} \cup OtherMethods

OperationIDs == {"", "AddBook", "ListBooks"}

Range(s) == {s[i] : i \in 1..Len(s)}

\* Every enumeration order of a set (a Go map is ranged over in any order).
Perms(S) ==
    {s \in [1..Cardinality(S) -> S] : \A i, j \in 1..Cardinality(S) : s[i] = s[j] => i = j}

\* A nil pointer, and a pointer to v.
Nil == <<>>
Ptr(v) == <<v>>

(***************************************************************************)
(* Descriptions                                                            *)
(* An operation definition has OperationID, Summary, Description and       *)
(* RequestBody: "nil" (no requestBody), "ref" (a RequestBodyRef whose      *)
(* Value is nil: an unresolved reference) or "value".                      *)
(* A document maps each of its paths to a path item; a path item maps      *)
(* each method slot to Nil or Ptr(operation).                              *)
(***************************************************************************)
BodyByConvention(method) == IF method \in {"POST", "PUT", "PATCH"} THEN "value" ELSE "nil"

\* An operation definition that carries only an operationId.
BareOperation(id, method) ==
    [OperationID |-> id, Summary |-> "", Description |-> "",
     RequestBody |-> BodyByConvention(method)]

AnyOperations ==
    [OperationID : OperationIDs,
     Summary     : {"", "Lists books"},
     Description : {"", "Lists books filtering by name."},
     RequestBody : {"nil", "ref", "value"}]

Slots == Paths \X AllMethods

\* The sets of at most n slots.
RECURSIVE SlotSets(_)
SlotSets(n) ==
    IF n = 0 THEN {{}}
    ELSE LET smaller == SlotSets(n - 1)
         IN smaller \cup {S \cup {t} : S \in smaller, t \in Slots}

\* The document with the operations f[slot] in the slots S, over the paths P.
MkDoc(P, S, f) ==
    [p \in P |-> [m \in AllMethods |-> IF <<p, m>> \in S THEN Ptr(f[<<p, m>>]) ELSE Nil]]

PathsOf(S) == {s[1] : s \in S}

\* The document whose slots S hold operations that carry only the
\* operationId ids[slot].
PlacementDoc(S, ids) ==
    MkDoc(PathsOf(S), S, [s \in S |-> BareOperation(ids[s], s[2])])

\* The document with the one operation op, in the slot s.
AttributeDoc(s, op) == MkDoc({s[1]}, {s}, [t \in {s} |-> op])

\* The bookstore example: ListBooks on GET /books, AddBook on POST /books.
BooksDoc ==
    MkDoc({"/books"}, {<<"/books", "GET">>, <<"/books", "POST">>},
          [s \in {<<"/books", "GET">>, <<"/books", "POST">>} |->
              IF s[2] = "GET"
              THEN [OperationID |-> "ListBooks", Summary |-> "",
                    Description |-> "Lists books filtering by name.", RequestBody |-> "nil"]
              ELSE [OperationID |-> "AddBook", Summary |-> "Adds a new book",
                    Description |-> "", RequestBody |-> "value"]])

\* A document whose two operationIds differ only in the case of their first
\* letter: ListBooks on GET /books, listBooks on GET /books/{id}.
CollidingDoc ==
    MkDoc(Paths, {<<"/books", "GET">>, <<"/books/{id}", "GET">>},
          [s \in {<<"/books", "GET">>, <<"/books/{id}", "GET">>} |->
              BareOperation(IF s[1] = "/books" THEN "ListBooks" ELSE "listBooks", s[2])])

\* Documents without a usable operation: no paths, a path without operations,
\* an operation without operationId.
EmptyDocs ==
    {MkDoc(P, {}, <<>>) : P \in SUBSET Paths}
    \cup {MkDoc({"/books"}, {<<"/books", "GET">>},
                [s \in {<<"/books", "GET">>} |-> BareOperation("", "GET")])}

(***************************************************************************)
(* Command line, filesystem                                                *)
(* A file path is the sequence of its segments: "./generated/main.go" is   *)
(* <<"generated", "main.go">>, "" is <<>>.  A URL is the record url.Parse  *)
(* makes of it: Scheme, and Path split at "/".                             *)
(***************************************************************************)
DefaultSpec == [Scheme |-> "https", Path |-> <<"", "api", "convert">>]
FileSpec == [Scheme |-> "", Path |-> <<"openapi.yaml">>]
DefaultServerURL ==
    [Scheme |-> "https", Path |-> <<"", "MCPBackend", "rest", "Backend">>]
DefaultOutput == <<"generated", "main.go">>

DefaultArgs ==
    [Spec          |-> DefaultSpec,
     Output        |-> DefaultOutput,
     Package       |-> "main",
     ClientPackage |-> "api",
     ClientImport  |-> "github.com/renato0307/go-mcp-rest/generated/api",
     ServerURL     |-> DefaultServerURL,
     UsernameEnv   |-> "API_USERNAME",
     PasswordEnv   |-> "API_PASSWORD"]

Outputs == {<<>>, DefaultOutput, <<"main.go">>}

\* The empty string given as --server-url.
EmptyURL == [Scheme |-> "", Path |-> <<"">>]

\* Command lines that give one option the empty string.
IncompleteArgs ==
    {[DefaultArgs EXCEPT !.Package = ""],
     [DefaultArgs EXCEPT !.ClientPackage = ""],
     [DefaultArgs EXCEPT !.ClientImport = ""],
     [DefaultArgs EXCEPT !.ServerURL = EmptyURL],
     [DefaultArgs EXCEPT !.UsernameEnv = ""],
     [DefaultArgs EXCEPT !.PasswordEnv = ""],
     [DefaultArgs EXCEPT !.Output = <<>>]}

Dir(path) == IF path = <<>> THEN <<>> ELSE SubSeq(path, 1, Len(path) - 1)

Join(a, b) == a \o b

Ancestors(dir) == {SubSeq(dir, 1, k) : k \in 0..Len(dir)}

ToLower(s) ==
    CASE s = "MCPBackend" -> "mcpbackend"
      [] s = "Backend" -> "backend"
      [] OTHER -> s

\* os.MkdirAll: creates dir and its missing ancestors; nothing to do when
\* they exist; fails when one has to be made and the filesystem refuses.
MkdirAll(f, dir) ==
    IF Ancestors(dir) \subseteq f.dirs THEN [fs |-> f, err |-> ""]
    ELSE IF f.readOnly THEN [fs |-> f, err |-> "mkdir: permission denied"]
    ELSE [fs |-> [f EXCEPT !.dirs = @ \cup Ancestors(dir)], err |-> ""]

\* os.WriteFile: creates or truncates the file, never a directory.
WriteFile(f, path, data) ==
    IF Dir(path) \notin f.dirs THEN [fs |-> f, err |-> "open: no such file or directory"]
    ELSE IF f.readOnly THEN [fs |-> f, err |-> "open: permission denied"]
    ELSE [fs |-> [f EXCEPT !.files =
                     [q \in DOMAIN f.files \cup {path} |-> IF q = path THEN data ELSE f.files[q]]],
          err |-> ""]

\* jen.File.Render: the rendered text goes through the Go formatter, which
\* rejects a file without a package name.
Renders(text) == text.Package # ""

\* jen.File.Save: renders the file and hands the text to WriteFile.
Save(f, filename, text) ==
    IF ~Renders(text) THEN [fs |-> f, err |-> "Error while formatting source"]
    ELSE WriteFile(f, filename, text)

(***************************************************************************)
(* loadOpenAPISpec                                                         *)
(***************************************************************************)
\* openapi3.T.Validate: an operation whose RequestBodyRef has no Value is an
\* unresolved reference.
Validate(doc) ==
    \A p \in DOMAIN doc : \A m \in AllMethods :
        doc[p][m] # Nil => doc[p][m][1].RequestBody # "ref"

loadOpenAPISpec(specPath) ==
    IF specPath.Scheme \in {"http", "https"}
    THEN CASE description.transport = "unreachable" ->
                 [doc |-> Nil, err |-> "error fetching from URL"]
           [] description.transport = "http_error" ->
                 [doc |-> Nil, err |-> "HTTP error"]
           [] description.transport = "read_error" ->
                 [doc |-> Nil, err |-> "error reading response body"]
           [] OTHER ->
                 IF ~description.parses
                 THEN [doc |-> Nil, err |-> "error parsing OpenAPI spec"]
                 ELSE IF ~Validate(description.doc)
                 THEN [doc |-> Nil, err |-> "invalid OpenAPI spec"]
                 ELSE [doc |-> Ptr(description.doc), err |-> ""]
    ELSE IF description.transport # "ok" \/ ~description.parses
         THEN [doc |-> Nil, err |-> "error loading OpenAPI spec from file"]
         ELSE IF ~Validate(description.doc)
         THEN [doc |-> Nil, err |-> "invalid OpenAPI spec"]
         ELSE [doc |-> Ptr(description.doc), err |-> ""]

(***************************************************************************)
(* processOperation and the extraction loop of generateMCPServer           *)
(***************************************************************************)
\* An assignment that keeps the record the map already holds for the id.
Put_KeepsFirst(table, id, info) ==
    [k \in DOMAIN table \cup {id} |-> IF k \in DOMAIN table THEN table[k] ELSE info]

\* operations[id] = info
Put(table, id, info) ==
    [k \in DOMAIN table \cup {id} |-> IF k = id THEN info ELSE table[k]]

\* processOperation without the operationId check of its first line.
processOperation_KeepsEmptyId(path, method, operation, table) ==
    IF operation = Nil
    THEN table
    ELSE LET op == operation[1]
             hasRequestBody == op.RequestBody # "nil" /\ op.RequestBody # "ref"
             paramType == IF hasRequestBody
                          THEN op.OperationID \o "JSONRequestBody"
                          ELSE op.OperationID \o "Params"
             summary == IF op.Summary = "" THEN method \o " " \o path ELSE op.Summary
             descr == IF op.Description = "" THEN summary ELSE op.Description
         IN Put(table, op.OperationID,
                [ID             |-> op.OperationID,
                 Summary        |-> summary,
                 Description    |-> descr,
                 ParameterType  |-> paramType,
                 HasRequestBody |-> hasRequestBody])

\* processOperation without the fallback of the description to the summary.
processOperation_NoDescriptionFallback(path, method, operation, table) ==
    IF operation = Nil \/ operation[1].OperationID = ""
    THEN table
    ELSE LET op == operation[1]
             hasRequestBody == op.RequestBody # "nil" /\ op.RequestBody # "ref"
             paramType == IF hasRequestBody
                          THEN op.OperationID \o "JSONRequestBody"
                          ELSE op.OperationID \o "Params"
             summary == IF op.Summary = "" THEN method \o " " \o path ELSE op.Summary
         IN Put(table, op.OperationID,
                [ID             |-> op.OperationID,
                 Summary        |-> summary,
                 Description    |-> op.Description,
                 ParameterType  |-> paramType,
                 HasRequestBody |-> hasRequestBody])

processOperation(path, method, operation, table) ==
    IF operation = Nil \/ operation[1].OperationID = ""
    THEN table
    ELSE LET op == operation[1]
             hasRequestBody == op.RequestBody # "nil" /\ op.RequestBody # "ref"
             paramType == IF hasRequestBody
                          THEN op.OperationID \o "JSONRequestBody"
                          ELSE op.OperationID \o "Params"
             summary == IF op.Summary = "" THEN method \o " " \o path ELSE op.Summary
             descr == IF op.Description = "" THEN summary ELSE op.Description
         IN Put(table, op.OperationID,
                [ID             |-> op.OperationID,
                 Summary        |-> summary,
                 Description    |-> descr,
                 ParameterType  |-> paramType,
                 HasRequestBody |-> hasRequestBody])

\* The seven processOperation calls for one path, in their order.
RECURSIVE ProcessPathItem(_, _, _, _)
ProcessPathItem(path, pathItem, i, table) ==
    IF i > Len(Methods) THEN table
    ELSE ProcessPathItem(path, pathItem, i + 1,
                         processOperation(path, Methods[i], pathItem[Methods[i]], table))

\* for path := range doc.Paths.Map(), in the order the map yields the paths.
RECURSIVE ExtractOperations(_, _, _, _)
ExtractOperations(doc, pathOrder, i, table) ==
    IF i > Len(pathOrder) THEN table
    ELSE ExtractOperations(doc, pathOrder, i + 1,
                           ProcessPathItem(pathOrder[i], doc[pathOrder[i]], 1, table))

EmptyTable == <<>>

\* The check of the operations map left out.
NoValidOperations_Never(table) == FALSE

\* if len(operations) == 0
NoValidOperations(table) == Cardinality(DOMAIN table) = 0

(***************************************************************************)
(* The synthesized program                                                 *)
(***************************************************************************)
\* The status the generated handler compares resp.StatusCode() with.
StatusOK == 200

\* RegisterToolStmt without the fork on HasRequestBody.
RegisterToolStmt_AlwaysByReference(op) ==
    [Name          |-> op.ID,
     Help          |-> op.Description,
     ArgumentType  |-> op.ParameterType,
     Call          |-> op.ID \o "WithResponse",
     Argument      |-> "&arguments",
     CallError     |-> "error calling " \o op.ID \o ": %v",
     ExpectStatus  |-> StatusOK,
     StatusError   |-> "error on " \o op.ID \o ": %s"]

\* The statements appended to mainBody for one operation: the RegisterTool
\* call with its handler, and the panic on a registration error.
RegisterToolStmt(op) ==
    [Name          |-> op.ID,
     Help          |-> op.Description,
     ArgumentType  |-> op.ParameterType,
     Call          |-> op.ID \o "WithResponse",
     Argument      |-> IF ~op.HasRequestBody THEN "&arguments" ELSE "arguments",
     CallError     |-> "error calling " \o op.ID \o ": %v",
     ExpectStatus  |-> StatusOK,
     StatusError   |-> "error on " \o op.ID \o ": %s"]

\* for _, op := range operations, in the order the map yields the entries.
Registrations(table, order) ==
    [i \in 1..Len(order) |-> RegisterToolStmt(table[order[i]])]

\* The file generateMCPServer builds: package clause, the client import, the
\* cli struct's tags, and main's body with one registration per operation.
Synthesize(cli, table, order) ==
    [Package       |-> cli.Package,
     ClientImport  |-> cli.ClientImport,
     ClientPackage |-> cli.ClientPackage,
     Host          |-> cli.ServerURL,
     UsernameEnv   |-> cli.UsernameEnv,
     PasswordEnv   |-> cli.PasswordEnv,
     Registrations |-> Registrations(table, order)]

\* A file that no run of this program wrote.
StaleText ==
    [Package |-> "main", ClientImport |-> "", ClientPackage |-> "", Host |-> DefaultServerURL,
     UsernameEnv |-> "", PasswordEnv |-> "", Registrations |-> <<>>]

(***************************************************************************)
(* mcp-rest-server-gen                                                     *)
(***************************************************************************)
\* The first non-empty segment of the URL's path, "app" when there is none.
RECURSIVE FirstSegment(_, _)
FirstSegment(pathParts, i) ==
    IF i > Len(pathParts) THEN "app"
    ELSE IF pathParts[i] # "" THEN pathParts[i]
    ELSE FirstSegment(pathParts, i + 1)

extractAppNameFromURL(urlStr) == FirstSegment(urlStr.Path, 1)

\* main up to the call of generateMCPServer.
MainStart ==
    /\ pc = "main"
    /\ IF CLI.Output = <<>>
       THEN LET appName == extractAppNameFromURL(CLI.ServerURL)
                outputDir == Join(<<"cmd">>, <<ToLower(appName)>>)
                made == MkdirAll(fs, outputDir)
            IN IF made.err # ""
               THEN /\ pc' = "exited"
                    /\ exit' = "error creating output directory"
                    /\ UNCHANGED <<CLI, fs>>
               ELSE /\ fs' = made.fs
                    /\ CLI' = [CLI EXCEPT !.Output = Join(outputDir, <<"main.go">>)]
                    /\ pc' = "generate"
                    /\ UNCHANGED exit
       ELSE /\ pc' = "generate"
            /\ UNCHANGED <<CLI, fs, exit>>
    /\ UNCHANGED <<description, args, fsBefore, operations, ranged>>
    /\ UNCHANGED bridgeVars
    /\ UNCHANGED clientVars

\* generateMCPServer, and main's handling of its result.
GenerateMCPServer ==
    /\ pc = "generate"
    /\ pc' = "exited"
    /\ LET loaded == loadOpenAPISpec(CLI.Spec)
       IN IF loaded.err # ""
          THEN /\ exit' = loaded.err
               /\ UNCHANGED <<fs, operations, ranged>>
          ELSE LET doc == loaded.doc[1]
               IN \E pathOrder \in Perms(DOMAIN doc) :
                    LET table == ExtractOperations(doc, pathOrder, 1, EmptyTable)
                    IN /\ operations' = table
                       /\ ranged' = pathOrder
                       /\ IF NoValidOperations(table)
                          THEN /\ exit' = "no valid operations found in the OpenAPI spec"
                               /\ UNCHANGED fs
                          ELSE \E order \in Perms(DOMAIN table) :
                                 LET saved == Save(fs, CLI.Output, Synthesize(CLI, table, order))
                                 IN /\ fs' = saved.fs
                                    /\ exit' = IF saved.err # "" THEN saved.err ELSE "ok"
    /\ UNCHANGED <<description, args, CLI, fsBefore>>
    /\ UNCHANGED bridgeVars
    /\ UNCHANGED clientVars

\* The command is run again on the same description with the same arguments.
RunAgain ==
    /\ pc = "exited"
    /\ pc' = "main"
    /\ CLI' = args
    /\ exit' = "running"
    /\ operations' = EmptyTable
    /\ ranged' = <<>>
    /\ fsBefore' = fs
    /\ UNCHANGED <<description, args, fs>>
    /\ UNCHANGED bridgeVars
    /\ UNCHANGED clientVars

(***************************************************************************)
(* Initial states                                                          *)
(***************************************************************************)
WorkDir == [dirs |-> {<<>>, <<"generated">>}, files |-> <<>>, readOnly |-> FALSE]

Filesystems ==
    {[dirs |-> {<<>>}, files |-> <<>>, readOnly |-> ro] : ro \in BOOLEAN}
    \cup {[dirs |-> {<<>>, <<"generated">>}, files |-> f, readOnly |-> ro] :
             f \in {<<>>, [q \in {DefaultOutput} |-> StaleText]}, ro \in BOOLEAN}

BridgeOff ==
    /\ program = Nil
    /\ bpc = "off"
    /\ steps = <<>>
    /\ tools = <<>>
    /\ serving = FALSE
    /\ failed = ""
    /\ response = <<>>

\* mcp-rest-client-gen is not running.
ClientOff ==
    /\ clientCli = <<>>
    /\ cpc = "off"
    /\ cmd = Nil
    /\ output = ""
    /\ ran = <<>>
    /\ written = <<>>

GenStart ==
    /\ ClientOff
    /\ CLI = args
    /\ fsBefore = fs
    /\ pc = "main"
    /\ exit = "running"
    /\ operations = EmptyTable
    /\ ranged = <<>>
    /\ BridgeOff

\* A description that is fetched and parsed without error.
Loadable(doc) == [transport |-> "ok", parses |-> TRUE, doc |-> doc]

\* Every placement of up to MaxOps operations, read over a working network
\* into a prepared working directory.
InitPlacement ==
    /\ \E S \in SlotSets(MaxOps) : \E ids \in [S -> OperationIDs] :
          description = Loadable(PlacementDoc(S, ids))
    /\ args = DefaultArgs
    /\ fs = WorkDir
    /\ GenStart

\* One operation of every shape.
InitAttributes ==
    /\ \E s \in Slots, op \in AnyOperations :
          description = Loadable(AttributeDoc(s, op))
    /\ args = DefaultArgs
    /\ fs = WorkDir
    /\ GenStart

\* Every source, output path and filesystem, for a few documents.
InitEnvironment ==
    /\ description \in [transport : {"ok", "unreachable", "http_error", "read_error"},
                        parses : BOOLEAN,
                        doc : {BooksDoc, CollidingDoc} \cup EmptyDocs]
    /\ args \in {[DefaultArgs EXCEPT !.Spec = s, !.Output = o] :
                    s \in {DefaultSpec, FileSpec}, o \in Outputs}
    /\ fs \in Filesystems
    /\ GenStart

\* The bookstore example with one option of the command line empty.
InitConfiguration ==
    /\ description = Loadable(BooksDoc)
    /\ args \in IncompleteArgs
    /\ fs = WorkDir
    /\ GenStart

Init == InitPlacement \/ InitAttributes \/ InitEnvironment \/ InitConfiguration

Next == MainStart \/ GenerateMCPServer \/ RunAgain

Spec == Init /\ [][Next]_vars

(***************************************************************************)
(* The generated program (the bridge)                                      *)
(* main's body as generateMCPServer emits it: the cli struct and           *)
(* kong.Parse, the basic-auth provider, the REST client, the server on     *)
(* the stdio transport, one RegisterTool per operation, Serve, the         *)
(* "Server started" notice, and the receive from the done channel.         *)
(***************************************************************************)
\* What the REST API may answer to a call.
HTTPResponses ==
    {[StatusCode |-> 200, Status |-> "200 OK", Body |-> "[]"],
     [StatusCode |-> 201, Status |-> "201 Created", Body |-> "{}"],
     [StatusCode |-> 204, Status |-> "204 No Content", Body |-> ""],
     [StatusCode |-> 404, Status |-> "404 Not Found", Body |-> "not found"],
     [StatusCode |-> 500, Status |-> "500 Internal Server Error", Body |-> ""]}

\* The outcomes of <id>WithResponse: a transport error, or a response.
CallOutcomes ==
    {[err |-> e, resp |-> Nil] : e \in {"connection refused"}}
    \cup {[err |-> "", resp |-> Ptr(r)] : r \in HTTPResponses}

\* fmt.Errorf(format, arg) for a format that ends in its only verb.
Errorf(format, arg) == SubSeq(format, 1, Len(format) - 2) \o arg

\* A handler that panics on a transport error, as main does on a client error.
Handler_PanicsOnCallError(stmt, outcome) ==
    IF outcome.err # ""
    THEN [result |-> Nil, error |-> Errorf(stmt.CallError, outcome.err), panics |-> TRUE]
    ELSE IF outcome.resp[1].StatusCode # stmt.ExpectStatus
    THEN [result |-> Nil, error |-> Errorf(stmt.StatusError, outcome.resp[1].Status),
          panics |-> FALSE]
    ELSE [result |-> Ptr(outcome.resp[1].Body), error |-> "", panics |-> FALSE]

\* The handler generated for one tool, applied to the outcome of its REST call.
Handler(stmt, outcome) ==
    IF outcome.err # ""
    THEN [result |-> Nil, error |-> Errorf(stmt.CallError, outcome.err), panics |-> FALSE]
    ELSE IF outcome.resp[1].StatusCode # stmt.ExpectStatus
    THEN [result |-> Nil, error |-> Errorf(stmt.StatusError, outcome.resp[1].Status),
          panics |-> FALSE]
    ELSE [result |-> Ptr(outcome.resp[1].Body), error |-> "", panics |-> FALSE]

\* What a failed start-up call does to the process: log.Fatal or panic.
OnAuthError == "fatal"
OnClientError == "panicked"
\* A registration error that is dropped: main goes on to Serve.
OnRegisterError_Ignored(stmt) == "serve"
OnRegisterError(stmt) == "panicked"
OnServeError == "panicked"

Terminated == {"exited", "fatal", "panicked"}

\* kong.Parse(&cli): exits the process when the command line is wrong.
ParseFlags ==
    /\ bpc = "parse"
    /\ \E ok \in BOOLEAN :
         /\ bpc' = IF ok THEN "auth" ELSE "exited"
         /\ steps' = IF ok THEN Append(steps, "parse") ELSE steps
         /\ failed' = IF ok THEN failed ELSE "parse"
    /\ UNCHANGED <<program, tools, serving, response>>
    /\ UNCHANGED genVars
    /\ UNCHANGED clientVars

\* basicAuth, err := securityprovider.NewSecurityProviderBasicAuth(...)
NewBasicAuth ==
    /\ bpc = "auth"
    /\ \E ok \in BOOLEAN :
         /\ bpc' = IF ok THEN "client" ELSE OnAuthError
         /\ steps' = IF ok THEN Append(steps, "auth") ELSE steps
         /\ failed' = IF ok THEN failed ELSE "auth"
    /\ UNCHANGED <<program, tools, serving, response>>
    /\ UNCHANGED genVars
    /\ UNCHANGED clientVars

\* restClient, err := NewClientWithResponses(cli.Host, ...)
NewClient ==
    /\ bpc = "client"
    /\ \E ok \in BOOLEAN :
         /\ bpc' = IF ok THEN "server" ELSE OnClientError
         /\ steps' = IF ok THEN Append(steps, "client") ELSE steps
         /\ failed' = IF ok THEN failed ELSE "client"
    /\ UNCHANGED <<program, tools, serving, response>>
    /\ UNCHANGED genVars
    /\ UNCHANGED clientVars

\* server := mcp_golang.NewServer(stdio.NewStdioServerTransport())
NewServer ==
    /\ bpc = "server"
    /\ bpc' = IF Len(program[1].Registrations) > 0 THEN "register" ELSE "serve"
    /\ steps' = Append(steps, "server")
    /\ UNCHANGED <<program, tools, serving, failed, response>>
    /\ UNCHANGED genVars
    /\ UNCHANGED clientVars

\* err = server.RegisterTool(name, help, handler); if err != nil { panic(err) }
RegisterTool ==
    /\ bpc = "register"
    /\ Len(tools) < Len(program[1].Registrations)
    /\ LET stmt == program[1].Registrations[Len(tools) + 1]
       IN \E ok \in BOOLEAN :
            IF ok
            THEN /\ tools' = Append(tools, stmt)
                 /\ steps' = Append(steps, "register " \o stmt.Name)
                 /\ bpc' = IF Len(tools') = Len(program[1].Registrations)
                           THEN "serve" ELSE "register"
                 /\ UNCHANGED failed
            ELSE /\ bpc' = OnRegisterError(stmt)
                 /\ failed' = "register " \o stmt.Name
                 /\ UNCHANGED <<tools, steps>>
    /\ UNCHANGED <<program, serving, response>>
    /\ UNCHANGED genVars
    /\ UNCHANGED clientVars

\* err = server.Serve(); if err != nil { panic(err) }
Serve ==
    /\ bpc = "serve"
    /\ \E ok \in BOOLEAN :
         /\ bpc' = IF ok THEN "log" ELSE OnServeError
         /\ serving' = ok
         /\ steps' = IF ok THEN Append(steps, "serve") ELSE steps
         /\ failed' = IF ok THEN failed ELSE "serve"
    /\ UNCHANGED <<program, tools, response>>
    /\ UNCHANGED genVars
    /\ UNCHANGED clientVars

\* slog.Info("Server started"); then main blocks on <-done, which nothing closes.
LogStarted ==
    /\ bpc = "log"
    /\ bpc' = "wait"
    /\ steps' = Append(steps, "log")
    /\ UNCHANGED <<program, tools, serving, failed, response>>
    /\ UNCHANGED genVars
    /\ UNCHANGED clientVars

\* The server dispatches one invocation of a registered tool to its handler.
CallTool ==
    /\ serving
    /\ bpc \notin Terminated
    /\ \E i \in 1..Len(tools), outcome \in CallOutcomes :
         LET returned == Handler(tools[i], outcome)
         IN /\ response' = Ptr([Tool |-> tools[i].Name, Outcome |-> outcome,
                                Returned |-> returned])
            /\ bpc' = IF returned.panics THEN "panicked" ELSE bpc
            /\ serving' = ~returned.panics
    /\ UNCHANGED <<program, steps, tools, failed>>
    /\ UNCHANGED genVars
    /\ UNCHANGED clientVars

\* Every text generateMCPServer can write for a document.
ProgramsOf(doc) ==
    IF ~Validate(doc) THEN {}
    ELSE UNION {LET table == ExtractOperations(doc, pathOrder, 1, EmptyTable)
                IN IF NoValidOperations(table) THEN {}
                   ELSE {Synthesize(DefaultArgs, table, order) : order \in Perms(DOMAIN table)} :
                   pathOrder \in Perms(DOMAIN doc)}

InitBridge ==
    /\ description = Loadable(BooksDoc)
    /\ args = DefaultArgs
    /\ CLI = args
    /\ fs = WorkDir
    /\ fsBefore = fs
    /\ pc = "main"
    /\ exit = "running"
    /\ operations = EmptyTable
    /\ ranged = <<>>
    /\ \/ \E S \in SlotSets(MaxOps) : \E ids \in [S -> OperationIDs] :
             program \in {Ptr(text) : text \in ProgramsOf(PlacementDoc(S, ids))}
       \/ \E s \in Slots, op \in AnyOperations :
             program \in {Ptr(text) : text \in ProgramsOf(AttributeDoc(s, op))}
       \/ program \in {Ptr(text) : text \in ProgramsOf(BooksDoc)}
    /\ bpc = "parse"
    /\ steps = <<>>
    /\ tools = <<>>
    /\ serving = FALSE
    /\ failed = ""
    /\ response = <<>>
    /\ ClientOff

NextBridge ==
    \/ ParseFlags
    \/ NewBasicAuth
    \/ NewClient
    \/ NewServer
    \/ RegisterTool
    \/ Serve
    \/ LogStarted
    \/ CallTool

SpecBridge == InitBridge /\ [][NextBridge]_vars

(***************************************************************************)
(* mcp-rest-client-gen                                                     *)
(* main runs its steps in order; each step that can fail ends the process  *)
(* through ctx.FatalIfErrorf.  The outcome of a call into the operating    *)
(* system or of a child process is any of the outcomes the call can have.  *)
(***************************************************************************)
\* kong's Context.FatalIfErrorf: exits the process when err is not nil,
\* returns otherwise.  The position after the call.
FatalIfErrorf_Returns(err, next) == next

FatalIfErrorf(err, next) == IF err # "" THEN "fatal" ELSE next

\* The content of a description that was retrieved.
SpecContent == "openapi: 3.0.0"

getSpecContent(specPath) ==
    IF specPath.Scheme \in {"http", "https"}
    THEN CASE description.transport = "unreachable" ->
                 [content |-> "", err |-> "failed to fetch spec from URL"]
           [] description.transport = "http_error" ->
                 [content |-> "", err |-> "received non-OK response"]
           [] description.transport = "read_error" ->
                 [content |-> "", err |-> "unexpected EOF"]
           [] OTHER -> [content |-> SpecContent, err |-> ""]
    ELSE IF description.transport # "ok"
         THEN [content |-> "", err |-> "open: no such file or directory"]
         ELSE [content |-> SpecContent, err |-> ""]

\* The lines of the configuration file.
createConfigContent(packageName, generateTypes, generateClient) ==
    <<"package: " \o packageName,
      "output: stdout",
      "generate:",
      IF generateTypes THEN "  models: true" ELSE "  models: false",
      IF generateClient THEN "  client: true" ELSE "  client: false",
      "  echo-server: false",
      "  chi-server: false",
      "  fiber-server: false",
      "  gin-server: false",
      "  strict-server: false">>

TempSpecPath == <<"tmp", "oapi-codegen", "spec.yaml">>

ConfigPath == <<"tmp", "oapi-codegen", "config.yaml">>

\* What an oapi-codegen process can leave: exit status and combined output.
RunResults == [ok : BOOLEAN, output : {"", "package api", "error: unsupported"}]

\* An error a call into the operating system can return, "" for none.
OSErrors == {"", "permission denied"}

GetSpec ==
    /\ cpc = "getSpecContent"
    /\ cpc' = FatalIfErrorf(getSpecContent(clientCli.Spec).err, "MkdirTemp")
    /\ UNCHANGED <<clientCli, cmd, output, ran, written>>
    /\ UNCHANGED genVars
    /\ UNCHANGED bridgeVars

MkdirTemp ==
    /\ cpc = "MkdirTemp"
    /\ \E err \in OSErrors : cpc' = FatalIfErrorf(err, "WriteSpec")
    /\ UNCHANGED <<clientCli, cmd, output, ran, written>>
    /\ UNCHANGED genVars
    /\ UNCHANGED bridgeVars

\* os.WriteFile(tempSpecPath, specContent, 0644)
WriteSpec ==
    /\ cpc = "WriteSpec"
    /\ \E err \in OSErrors : cpc' = FatalIfErrorf(err, "WriteConfig")
    /\ UNCHANGED <<clientCli, cmd, output, ran, written>>
    /\ UNCHANGED genVars
    /\ UNCHANGED bridgeVars

\* os.WriteFile(configPath, []byte(configContent), 0644)
WriteConfig ==
    /\ cpc = "WriteConfig"
    /\ \E err \in OSErrors : cpc' = FatalIfErrorf(err, "LookPath")
    /\ UNCHANGED <<clientCli, cmd, output, ran, written>>
    /\ UNCHANGED genVars
    /\ UNCHANGED bridgeVars

\* exec.LookPath("oapi-codegen"), and "go install" when it is not found.
LookPath ==
    /\ cpc = "LookPath"
    /\ \E found \in BOOLEAN :
          IF found THEN cpc' = "MkdirAll"
          ELSE \E err \in {"", "exit status 1"} : cpc' = FatalIfErrorf(err, "MkdirAll")
    /\ UNCHANGED <<clientCli, cmd, output, ran, written>>
    /\ UNCHANGED genVars
    /\ UNCHANGED bridgeVars

\* os.MkdirAll(cli.OutputDir, 0755)
MkdirOutputDir ==
    /\ cpc = "MkdirAll"
    /\ \E err \in OSErrors : cpc' = FatalIfErrorf(err, "version")
    /\ UNCHANGED <<clientCli, cmd, output, ran, written>>
    /\ UNCHANGED genVars
    /\ UNCHANGED bridgeVars

\* oapi-codegen --version; its error is dropped.
Version ==
    /\ cpc = "version"
    /\ \E res \in RunResults :
          ran' = Append(ran, [kind |-> "version", args |-> <<"--version">>,
                              ok |-> res.ok, output |-> res.output])
    /\ cpc' = "command"
    /\ UNCHANGED <<clientCli, cmd, output, written>>
    /\ UNCHANGED genVars
    /\ UNCHANGED bridgeVars

\* The if / else if chain that builds cmd.
BuildCommand ==
    /\ cpc = "command"
    /\ LET generate(what) ==
               Ptr(<<"-package", clientCli.Package, "-generate", what, TempSpecPath>>)
       IN IF clientCli.GenerateClient /\ clientCli.GenerateTypes
          THEN cmd' = generate("types,client") /\ cpc' = "run"
          ELSE IF clientCli.GenerateClient
          THEN cmd' = generate("client") /\ cpc' = "run"
          ELSE IF clientCli.GenerateTypes
          THEN cmd' = generate("types") /\ cpc' = "run"
          ELSE cmd' = cmd /\ cpc' = FatalIfErrorf("invalid options", "run")
    /\ UNCHANGED <<clientCli, output, ran, written>>
    /\ UNCHANGED genVars
    /\ UNCHANGED bridgeVars

\* output, err := cmd.CombinedOutput(); a nil cmd is a nil pointer
\* dereference, which panics.
RunDirect ==
    /\ cpc = "run"
    /\ IF cmd = Nil
       THEN /\ cpc' = "panicked"
            /\ UNCHANGED <<output, ran>>
       ELSE \E res \in RunResults :
              /\ ran' = Append(ran, [kind |-> "direct", args |-> cmd[1],
                                     ok |-> res.ok, output |-> res.output])
              /\ output' = res.output
              /\ cpc' = IF res.ok THEN "check" ELSE "config"
    /\ UNCHANGED <<clientCli, cmd, written>>
    /\ UNCHANGED genVars
    /\ UNCHANGED bridgeVars

\* The invocation with the configuration file, after the direct one failed.
RunConfig ==
    /\ cpc = "config"
    /\ \E res \in RunResults :
          /\ ran' = Append(ran, [kind |-> "config",
                                 args |-> <<"-config", ConfigPath, TempSpecPath,
                                            createConfigContent(clientCli.Package,
                                                                clientCli.GenerateTypes,
                                                                clientCli.GenerateClient)>>,
                                 ok |-> res.ok, output |-> res.output])
          /\ output' = res.output
          /\ cpc' = FatalIfErrorf(IF res.ok THEN "" ELSE "exit status 1", "check")
    /\ UNCHANGED <<clientCli, cmd, written>>
    /\ UNCHANGED genVars
    /\ UNCHANGED bridgeVars

\* if len(output) == 0
CheckOutput ==
    /\ cpc = "check"
    /\ cpc' = FatalIfErrorf(IF Len(output) = 0 THEN "empty output" ELSE "", "write")
    /\ UNCHANGED <<clientCli, cmd, output, ran, written>>
    /\ UNCHANGED genVars
    /\ UNCHANGED bridgeVars

\* os.WriteFile(outputFilePath, output, 0644)
WriteOutput ==
    /\ cpc = "write"
    /\ LET outputFilePath == Join(clientCli.OutputDir, <<clientCli.Filename>>)
       IN written' = Append(written, [path |-> outputFilePath, data |-> output])
    /\ \E err \in OSErrors : cpc' = FatalIfErrorf(err, "done")
    /\ UNCHANGED <<clientCli, cmd, output, ran>>
    /\ UNCHANGED genVars
    /\ UNCHANGED bridgeVars

\* kong.Parse has filled cli; the description is retrievable or not.
InitClient ==
    /\ description \in [transport : {"ok", "unreachable", "http_error", "read_error"},
                        parses : {TRUE},
                        doc : {BooksDoc}]
    /\ args = DefaultArgs
    /\ CLI = args
    /\ fs = WorkDir
    /\ fsBefore = fs
    /\ pc = "off"
    /\ exit = "running"
    /\ operations = EmptyTable
    /\ ranged = <<>>
    /\ BridgeOff
    /\ clientCli \in [Spec : {DefaultSpec, FileSpec},
                       OutputDir : {<<"generated", "api">>},
                       Filename : {"client.go"},
                       Package : {"api"},
                       GenerateTypes : BOOLEAN,
                       GenerateClient : BOOLEAN]
    /\ cpc = "getSpecContent"
    /\ cmd = Nil
    /\ output = ""
    /\ ran = <<>>
    /\ written = <<>>

NextClient ==
    \/ GetSpec
    \/ MkdirTemp
    \/ WriteSpec
    \/ WriteConfig
    \/ LookPath
    \/ MkdirOutputDir
    \/ Version
    \/ BuildCommand
    \/ RunDirect
    \/ RunConfig
    \/ CheckOutput
    \/ WriteOutput

SpecClient == InitClient /\ [][NextClient]_vars

(***************************************************************************)
(* Properties                                                              *)
(***************************************************************************)
\* The operation definitions of a document, with the slot each sits in.
Definitions(doc) ==
    {<<s[1], s[2], doc[s[1]][s[2]][1]>> :
        s \in {t \in (DOMAIN doc) \X AllMethods : doc[t[1]][t[2]] # Nil}}

\* The definitions in one of the seven slots that carry an operationId.
Usable(doc) ==
    {d \in Definitions(doc) : d[2] \in Range(Methods) /\ d[3].OperationID # ""}

Succeeded == pc = "exited" /\ exit = "ok"

\* The text in the output file.
Output == fs.files[CLI.Output]

ToolNames(text) == {text.Registrations[i].Name : i \in 1..Len(text.Registrations)}

\* C1: two runs on the same description with the same configuration write the
\* same text: a run that succeeds over the output of an earlier run leaves the
\* file as it was.
C1_ByteIdenticalOutput ==
    [][(/\ pc = "generate"
        /\ exit' = "ok"
        /\ CLI.Output \in DOMAIN fs.files
        /\ fs.files[CLI.Output] # StaleText)
       => fs'.files[CLI.Output] = fs.files[CLI.Output]]_vars

\* C2: the generated program has one RegisterTool statement for each distinct
\* non-empty operationId of the seven slots, and no other: the tool names are
\* those identifiers and there are as many statements as identifiers.
C2_OneRegistrationPerOperationId ==
    Succeeded =>
        LET ids == {d[3].OperationID : d \in Usable(description.doc)}
        IN /\ ToolNames(Output) = ids
           /\ Len(Output.Registrations) = Cardinality(ids)

\* C2 witness: a run succeeded on a document with two definitions of which
\* only one became a tool (an empty or repeated operationId, or a TRACE slot).
C2_Witness ==
    /\ Succeeded
    /\ Cardinality(Definitions(description.doc)) = 2
    /\ Len(Output.Registrations) = 1
    /\ \E d \in Definitions(description.doc) : d[2] = "TRACE" /\ d[3].OperationID # ""

\* The registration statement of the tool named id.
StatementOf(text, id) ==
    text.Registrations[CHOOSE i \in 1..Len(text.Registrations) : text.Registrations[i].Name = id]

\* C3: every extracted operation comes from a definition with its id such that:
\* with a request body, HasRequestBody is true, the type is <id>JSONRequestBody
\* and the handler passes arguments; without one, HasRequestBody is false, the
\* type is <id>Params and the handler passes &arguments.
C3_BodyParameterFork ==
    Succeeded =>
        \A id \in DOMAIN operations :
            \E d \in Usable(description.doc) :
                /\ d[3].OperationID = id
                /\ LET info == operations[id]
                       stmt == StatementOf(Output, id)
                   IN /\ stmt.ArgumentType = info.ParameterType
                      /\ stmt.Call = id \o "WithResponse"
                      /\ IF d[3].RequestBody # "nil"
                         THEN /\ info.HasRequestBody
                              /\ info.ParameterType = id \o "JSONRequestBody"
                              /\ stmt.Argument = "arguments"
                         ELSE /\ ~info.HasRequestBody
                              /\ info.ParameterType = id \o "Params"
                              /\ stmt.Argument = "&arguments"

\* C3 witness: a run succeeded on a document whose only operation has a
\* request body.
C3_Witness ==
    /\ Succeeded
    /\ \E d \in Definitions(description.doc) :
          /\ Definitions(description.doc) = {d}
          /\ d[3].RequestBody = "value"
          /\ d[2] = "GET"

\* C4: every extracted operation comes from a definition with its id such that
\* Summary is the definition's summary, or "<METHOD> <path>" of its slot when
\* that is empty, and Description is the definition's description, or the
\* Summary when that is empty; the tool's help is that Description, never empty.
C4_FallbackText ==
    Succeeded =>
        \A id \in DOMAIN operations :
            \E d \in Usable(description.doc) :
                /\ d[3].OperationID = id
                /\ LET info == operations[id]
                   IN /\ info.Summary =
                            IF d[3].Summary # "" THEN d[3].Summary ELSE d[2] \o " " \o d[1]
                      /\ info.Description =
                            IF d[3].Description # "" THEN d[3].Description ELSE info.Summary
                      /\ StatementOf(Output, id).Help = info.Description
                      /\ StatementOf(Output, id).Help # ""

\* C4 witness: a run succeeded on a document whose only operation has a
\* summary and no description.
C4_Witness ==
    /\ Succeeded
    /\ \E d \in Definitions(description.doc) :
          /\ Definitions(description.doc) = {d}
          /\ d[3].Summary # ""
          /\ d[3].Description = ""
          /\ Output.Registrations[1].Help = d[3].Summary

\* The HTTP status codes that report success.
SuccessStatus == 200..299

\* C5: the handler returns an error naming the operation and the underlying
\* error on a transport error, an error naming the operation and the status
\* text on a non-success status, and the response body as the tool's text on
\* every successful status.
C5_HandlerOutcome ==
    response # Nil =>
        LET r == response[1]
        IN IF r.Outcome.err # ""
           THEN /\ r.Returned.result = Nil
                /\ r.Returned.error = "error calling " \o r.Tool \o ": " \o r.Outcome.err
           ELSE IF r.Outcome.resp[1].StatusCode \notin SuccessStatus
           THEN /\ r.Returned.result = Nil
                /\ r.Returned.error = "error on " \o r.Tool \o ": " \o r.Outcome.resp[1].Status
           ELSE /\ r.Returned.result = Ptr(r.Outcome.resp[1].Body)
                /\ r.Returned.error = ""

LoadErrors ==
    {"error fetching from URL", "HTTP error", "error reading response body",
     "error parsing OpenAPI spec", "error loading OpenAPI spec from file",
     "invalid OpenAPI spec"}

NoOperationsError == "no valid operations found in the OpenAPI spec"

\* The run got as far as generateMCPServer and has ended.
GenerateReturned == pc = "exited" /\ exit # "error creating output directory"

\* C6: when the description loads and no slot yields an operation with an
\* operationId, generateMCPServer returns the no-operations error and no file
\* is written.
C6_EmptyInputRejected ==
    (/\ GenerateReturned
     /\ loadOpenAPISpec(CLI.Spec).err = ""
     /\ Usable(description.doc) = {})
    => /\ exit = NoOperationsError
       /\ fs.files = fsBefore.files

\* C6 witness: a run ended with the no-operations error on a document that
\* has an operation without operationId.
C6_Witness ==
    /\ pc = "exited"
    /\ exit = NoOperationsError
    /\ Definitions(description.doc) # {}

\* C7: a run in which fetching, parsing or validating the description fails
\* ends with the filesystem exactly as it was before the run, for every
\* configuration.
C7_NoOutputOnInputError ==
    (pc = "exited" /\ exit \in LoadErrors) => fs = fsBefore

\* C8: when synthesis has succeeded and the filesystem permits, the run
\* succeeds and leaves the generated text at the output path, in a directory
\* that exists.
C8_EmitterCreatesDirectory ==
    (/\ GenerateReturned
     /\ ~fs.readOnly
     /\ loadOpenAPISpec(CLI.Spec).err = ""
     /\ Usable(description.doc) # {})
    => /\ exit = "ok"
       /\ Dir(CLI.Output) \in fs.dirs
       /\ CLI.Output \in DOMAIN fs.files
       /\ Len(fs.files[CLI.Output].Registrations) > 0

IsPrefix(s, t) == Len(s) <= Len(t) /\ SubSeq(t, 1, Len(s)) = s

ExpectedSteps(text) ==
    <<"parse", "auth", "client", "server">>
    \o [i \in 1..Len(text.Registrations) |-> "register " \o text.Registrations[i].Name]
    \o <<"serve", "log">>

\* C9: the bridge completes its start-up steps in the order parse, auth,
\* client, server, one registration per tool, serve, log; it serves only with
\* every tool registered and no failed call; a failed client construction,
\* registration or Serve has terminated the process, which then does not serve.
C9_StartupOrder ==
    /\ IsPrefix(steps, ExpectedSteps(program[1]))
    /\ serving => (tools = program[1].Registrations /\ failed = "")
    /\ failed # "" => (bpc \in Terminated /\ ~serving)

\* C9 witness: the bridge has registered two tools, served and logged.
C9_Witness ==
    /\ bpc = "wait"
    /\ Len(tools) = 2
    /\ steps = ExpectedSteps(program[1])

\* C10: once the bridge serves, every step leaves it serving and not
\* terminated, with a tool to invoke, and every invocation ends with either a
\* result or an error returned to the caller.
C10_KeepsServing ==
    [][serving =>
          /\ serving'
          /\ bpc' \notin Terminated
          /\ Len(tools') > 0
          /\ response' # response =>
                (response'[1].Returned.result # Nil) # (response'[1].Returned.error # "")]_vars

\* C10 witness: the bridge is still serving after an invocation that met a
\* transport error and one that met a non-success status.
C10_Witness ==
    /\ serving
    /\ bpc = "wait"
    /\ response # Nil
    /\ response[1].Outcome.err # ""
    /\ response[1].Returned.error # ""

\* The place of a definition in the run's processing order: the place of its
\* path in the range over the paths, then of its method among the seven.
IndexIn(seq, x) == CHOOSE i \in 1..Len(seq) : seq[i] = x

Position(d) == IndexIn(ranged, d[1]) * (Len(Methods) + 1) + IndexIn(Methods, d[2])

\* The definition with operationId id that the run processed last.
LastProcessed(doc, id) ==
    CHOOSE d \in Usable(doc) :
        /\ d[3].OperationID = id
        /\ \A e \in Usable(doc) : e[3].OperationID = id => Position(e) <= Position(d)

\* The record the claim expects for a definition in its slot.
RecordOf(d) ==
    LET summary == IF d[3].Summary # "" THEN d[3].Summary ELSE d[2] \o " " \o d[1]
    IN [ID             |-> d[3].OperationID,
        Summary        |-> summary,
        Description    |-> IF d[3].Description # "" THEN d[3].Description ELSE summary,
        ParameterType  |-> IF d[3].RequestBody # "nil"
                           THEN d[3].OperationID \o "JSONRequestBody"
                           ELSE d[3].OperationID \o "Params",
        HasRequestBody |-> d[3].RequestBody # "nil"]

\* The run loaded the description and extracted its operations.
Extracted == GenerateReturned /\ exit \notin LoadErrors

BindingSymbol(id) ==
    CASE id = "list-books" -> "ListBooks"
      [] id = "listBooks" -> "ListBooks"
      [] OTHER -> id

\* Two operations of the table that the client binding names alike.
Collision ==
    \E a, b \in DOMAIN operations : a # b /\ BindingSymbol(a) = BindingSymbol(b)

\* C11: when two operations of the table resolve to the same symbol of the
\* client binding, generateMCPServer fails and writes no file.
C11_CollisionRejected ==
    (Extracted /\ Collision) => (exit # "ok" /\ fs.files = fsBefore.files)

\* An option of the command line that the generated program needs is empty.
MissingField(a) ==
    \/ a.Package = ""
    \/ a.ClientPackage = ""
    \/ a.ClientImport = ""
    \/ a.ServerURL = EmptyURL
    \/ a.UsernameEnv = ""
    \/ a.PasswordEnv = ""
    \/ a.Output = <<>>

\* C12: a run whose configuration has an empty required field fails and
\* writes no file.
C12_MissingConfigurationRejected ==
    (pc = "exited" /\ MissingField(args)) => (exit # "ok" /\ fs.files = fsBefore.files)

\* The generating invocations of oapi-codegen that have exited, in order.
Generating == SelectSeq(ran, LAMBDA r : r.kind \in {"direct", "config"})

ClientEnded == cpc \in {"done", "fatal", "panicked"}

\* C14: the output file is written at most once, with the non-empty output of
\* a generating invocation that exited successfully; the invocation with the
\* configuration file runs exactly when the direct one failed; a run whose
\* description cannot be retrieved, whose two generate options are false,
\* whose two invocations fail or whose output is empty ends in a fatal error
\* without a write; cmd is never used while nil.
C14_WriteGuard ==
    LET g == Generating
        n == Len(g)
    IN /\ cpc # "panicked"
       /\ Len(written) <= 1
       /\ written # <<>> =>
             /\ n > 0
             /\ g[n].ok
             /\ g[n].output # ""
             /\ written[1].data = g[n].output
             /\ written[1].path = Join(clientCli.OutputDir, <<clientCli.Filename>>)
       /\ n <= 2
       /\ n >= 1 => g[1].kind = "direct" /\ cmd # Nil /\ g[1].args = cmd[1]
       /\ n = 2 => g[2].kind = "config" /\ ~g[1].ok
       /\ (ClientEnded /\ n = 1) => g[1].ok
       /\ cpc = "done" => Len(written) = 1
       /\ (/\ ClientEnded
           /\ \/ getSpecContent(clientCli.Spec).err # ""
              \/ ~clientCli.GenerateTypes /\ ~clientCli.GenerateClient
              \/ n = 2 /\ ~g[2].ok
              \/ n > 0 /\ g[n].output = "")
          => cpc = "fatal" /\ written = <<>>

\* C14 witness: a run wrote the output of the invocation with the
\* configuration file, after the direct invocation had failed.
C14_Witness ==
    /\ cpc = "done"
    /\ Len(Generating) = 2
    /\ written = <<[path |-> <<"generated", "api", "client.go">>,
                    data |-> Generating[2].output]>>

====
